---- MODULE Spec2Model ----
(***************************************************************************)
(* django-registration: the activation-key lifecycle of                   *)
(* registration/models.py (RegistrationManager, RegistrationProfile).     *)
(*                                                                         *)
(* Strings are sequences of one-character strings, so that the regular    *)
(* expression SHA1_RE, str.strip and the hex digest are computed on the   *)
(* characters.  Time is counted in days.  The user table belongs to the   *)
(* host application (django.contrib.auth); the host's operations on it    *)
(* that the source refers to are environment actions.                     *)
(***************************************************************************)
EXTENDS Integers, Sequences, FiniteSets, TLC

\* ------------------------------------------------------------------ bounds
MaxUsers  == 2      \* user rows ever inserted (primary keys 1..MaxUsers)
MaxTime   == 2      \* the clock runs over 0..MaxTime days
MaxCounter == 4     \* SimpleRegistrationForm.save: the counter is followed up to this value

\* ------------------------------------------------------- program constants
KeyLen  == 40       \* SHA1_RE: {40}; length of a sha1 hexdigest
SaltLen == 5        \* hexdigest()[:5]
UsernameCut == 28   \* SimpleRegistrationForm.save: username[:28]

HexLower   == {"0","1","2","3","4","5","6","7","8","9","a","b","c","d","e","f"}
Whitespace == {" ", "\t", "\n", "\r"}

\* RegistrationProfile.ACTIVATED = u"ALREADY_ACTIVATED"
ACTIVATED == <<"A","L","R","E","A","D","Y","_","A","C","T","I","V","A","T","E","D">>

Usernames == {<<"a">>, <<"b">>}
Emails    == {<<" ">>, <<"a","@","x">>}
Email0    == <<"a","@","x">>
Windows   == {-1, 0, 1, 2}   \* values of settings.ACCOUNT_ACTIVATION_DAYS
Salts     == {1, 2}          \* outcomes of the random salt

\* ------------------------------------------------------------ pure helpers
Put(f, k, v) == [x \in DOMAIN f \cup {k} |-> IF x = k THEN v ELSE f[x]]
Drop(f, S)   == [x \in DOMAIN f \ S |-> f[x]]
EmptyMap     == [x \in {} |-> 0]

\* SHA1_RE = re.compile('^[a-f0-9]{40}$'), used with .search(): ^ anchors at
\* the start, $ matches at the end of the string or just before a newline
\* that ends the string.
SHA1_RE_search(s) ==
    /\ Len(s) \in {KeyLen, KeyLen + 1}
    /\ \A i \in 1..KeyLen : s[i] \in HexLower
    /\ Len(s) = KeyLen + 1 => s[KeyLen + 1] = "\n"

\* hashlib.sha1(msg).hexdigest(): 40 lower-case hex digits.  The stand-in
\* keeps the digest's format and is injective on the messages of the model
\* (salt + username), as sha1 is taken to be.
HexOf(c) == IF c \in HexLower THEN c ELSE "f"
sha_hexdigest(msg) ==
    [i \in 1..KeyLen |-> IF i <= Len(msg) THEN HexOf(msg[i]) ELSE "0"]

\* salt = sha_constructor(str(random.random())).hexdigest()[:5]; r is the
\* outcome of random.random()
SaltDigits == <<"1","2","3","4","5","6","7","8","9">>
salt(r) == [j \in 1..SaltLen |-> IF j = SaltLen THEN SaltDigits[r] ELSE "0"]

generate_activation_key(username, r) == sha_hexdigest(salt(r) \o username)

\* ------------------------------------------------------------------- state
VARIABLES
    users,          \* the user table: primary key -> row
    profiles,       \* RegistrationProfile rows, keyed by user_id (OneToOneField)
    nextId,         \* the next primary key of the user table
    now,            \* datetime.datetime.now(), in days
    window,         \* settings.ACCOUNT_ACTIVATION_DAYS
    last,           \* the last manager call and what it returned or raised
    consumed,       \* history: keys that activate_user has accepted
    activated,      \* history: existing users that activate_user has activated
    reg,            \* the registration requests in flight: form -> position
    act,            \* the activate_user call in flight, statement by statement
    mail_up,        \* whether the mail transport accepts messages
    form            \* the save() call of a registration form, in flight or last made

vars == <<users, profiles, nextId, now, window, last, consumed, activated, reg, act, mail_up, form>>

\* last.user is the row the call found or returned (0: none), last.lookups the
\* number of profile lookups it made, last.deleted the users it deleted (each
\* with has_activated of its profile), last.mailed the recipient lists of its
\* send_mail calls, last.callbacks the number of times it invoked the
\* callback it was given, last.rendered the contexts of its template
\* renderings, in order
NoCall == [op |-> "none", user |-> 0, outcome |-> "none",
           lookups |-> 0, deleted |-> {}, mailed |-> <<>>, callbacks |-> 0,
           rendered |-> <<>>]

\* No activate_user call is in flight.
Idle == [pc |-> "idle", user |-> 0, cb |-> FALSE, calls |-> 0]

\* No save() call of a form has been made. form.cls is the form class,
\* form.send the email flag passed to save, form.email the cleaned email
\* address, form.username the username it
\* has computed, form.new_username and form.counter the locals of the
\* numbering loop of SimpleRegistrationForm.save.
NoForm == [cls |-> "none", pc |-> "idle", send |-> FALSE, email |-> <<>>,
           username |-> <<>>, new_username |-> <<>>, counter |-> 0]

\* Two requests, each with a bound RegistrationForm of its own.
Procs == {1, 2}
NewForm == [pc |-> "new", username |-> <<>>]

Call(op, user, outcome, lookups) ==
    [op |-> op, user |-> user, outcome |-> outcome,
     lookups |-> lookups, deleted |-> {}, mailed |-> <<>>, callbacks |-> 0,
     rendered |-> <<>>]

Init ==
    /\ users = EmptyMap
    /\ profiles = EmptyMap
    /\ nextId = 1
    /\ now = 0
    /\ window \in Windows
    /\ last = NoCall
    /\ consumed = {}
    /\ activated = {}
    /\ reg = [p \in Procs |-> NewForm]
    /\ act = Idle
    /\ mail_up = TRUE
    /\ form = NoForm

\* (mutant) the boundary day itself still counts as inside the window
activation_key_expired_strict(u) ==
    IF window > 0
    THEN profiles[u] = ACTIVATED \/ users[u].date_joined + window < now
    ELSE profiles[u] = ACTIVATED

\* (mutant) the window is applied whatever its sign
activation_key_expired_always_timed(u) ==
    profiles[u] = ACTIVATED \/ users[u].date_joined + window <= now

\* RegistrationProfile.activation_key_expired, for the profile of user u
activation_key_expired(u) ==
    IF window > 0
    THEN profiles[u] = ACTIVATED \/ users[u].date_joined + window <= now
    ELSE profiles[u] = ACTIVATED

\* RegistrationProfile.has_activated
has_activated(u) == profiles[u] = ACTIVATED

\* self.get(activation_key=key) / filter(activation_key=key): the matching rows
ProfilesWithKey(key) == {u \in DOMAIN profiles : profiles[u] = key}

\* User.objects.get(username=name): the matching rows
UsersNamed(name) == {u \in DOMAIN users : users[u].username = name}

\* ------------------------------------------------------ environment actions
\* The host inserts a user row (User.objects.create_user and the fields set
\* on it afterwards); username is unique in the user table.
HostCreateUser(name, email, active) ==
    /\ nextId <= MaxUsers
    /\ UsersNamed(name) = {}
    /\ users' = Put(users, nextId, [username |-> name, email |-> email,
                                    is_active |-> active, date_joined |-> now])
    /\ nextId' = nextId + 1
    /\ last' = NoCall
    /\ UNCHANGED <<profiles, now, window, consumed, activated, reg, act, mail_up, form>>

\* A site administrator sets is_active of an existing user.
AdminSetActive(u, b) ==
    /\ u \in DOMAIN users
    /\ users[u].is_active # b
    /\ users' = [users EXCEPT ![u].is_active = b]
    /\ last' = NoCall
    /\ UNCHANGED <<profiles, nextId, now, window, consumed, activated, reg, act, mail_up, form>>

\* The host application changes the username of an existing user to a free
\* one; the key of its profile was derived from the old username and stays.
HostRenameUser(u, name) ==
    /\ u \in DOMAIN users
    /\ UsersNamed(name) = {}
    /\ users' = [users EXCEPT ![u].username = name]
    /\ last' = NoCall
    /\ UNCHANGED <<profiles, nextId, now, window, consumed, activated, reg, act, mail_up, form>>

\* A site administrator deletes the profile of a user and keeps the user
\* (the way to disable an account that the purge docstring recommends).
AdminDeleteProfile(u) ==
    /\ u \in DOMAIN profiles
    /\ profiles' = Drop(profiles, {u})
    /\ last' = NoCall
    /\ UNCHANGED <<users, nextId, now, window, consumed, activated, reg, act, mail_up, form>>

\* Time passes.
Tick ==
    /\ now < MaxTime
    /\ now' = now + 1
    /\ last' = NoCall
    /\ UNCHANGED <<users, profiles, nextId, window, consumed, activated, reg, act, mail_up, form>>

\* ---------------------------------------------------- RegistrationManager
\* (mutant) update_or_create: an existing profile gets a new key
CreateProfile_overwrite(u, r) ==
    /\ u \in DOMAIN users
    /\ profiles' = Put(profiles, u, generate_activation_key(users[u].username, r))
    /\ last' = Call("create_profile", u, "profile", 0)
    /\ UNCHANGED <<users, nextId, now, window, consumed, activated, reg, act, mail_up, form>>

\* create_profile(user): self.create(user=user, activation_key=generate_...);
\* a second profile for the same user violates the OneToOneField.
CreateProfile(u, r) ==
    /\ u \in DOMAIN users
    /\ IF u \in DOMAIN profiles
       THEN /\ last' = Call("create_profile", u, "IntegrityError", 0)
            /\ UNCHANGED profiles
       ELSE /\ profiles' = Put(profiles, u,
                               generate_activation_key(users[u].username, r))
            /\ last' = Call("create_profile", u, "profile", 0)
    /\ UNCHANGED <<users, nextId, now, window, consumed, activated, reg, act, mail_up, form>>

\* (mutant) no transaction: the user row is inserted and stays when the
\* profile cannot be created
create_inactive_user_partial(name, email, send_email) ==
    /\ nextId <= MaxUsers
    /\ UsersNamed(name) = {}
    /\ users' = Put(users, nextId, [username |-> name, email |-> email,
                                    is_active |-> FALSE, date_joined |-> now])
    /\ nextId' = nextId + 1
    /\ last' = Call("create_inactive_user", 0, "IntegrityError", 0)
    /\ UNCHANGED <<profiles, now, window, consumed, activated>>

\* create_inactive_user: the body opens with `with transaction.atomic():`,
\* and the module binds no name `transaction` (it imports datetime, random,
\* re, settings, models, render_to_string, ugettext_lazy, sha1,
\* get_user_model and Site), so the call raises NameError before it touches
\* the store.
create_inactive_user(name, email, send_email) ==
    /\ last' = Call("create_inactive_user", 0, "NameError", 0)
    /\ UNCHANGED <<users, profiles, nextId, now, window, consumed, activated>>

CreateInactiveUser(name, email, send_email) ==
    create_inactive_user(name, email, send_email) /\ UNCHANGED <<reg, act, mail_up, form>>

\* (mutant) the key is not reset to the sentinel on success
activate_user_keeps_key(key) ==
    IF SHA1_RE_search(key) /\ ProfilesWithKey(key) # {}
    THEN LET u == CHOOSE x \in ProfilesWithKey(key) : TRUE IN
         IF ~activation_key_expired(u)
         THEN /\ users' = [users EXCEPT ![u].is_active = TRUE]
              /\ last' = [Call("activate_user", u, "user", 1) EXCEPT !.callbacks = 1]
              /\ activated' = activated \cup {u}
              /\ UNCHANGED <<profiles, nextId, now, window>>
         ELSE /\ last' = Call("activate_user", u, "False", 1)
              /\ UNCHANGED <<users, profiles, nextId, now, window, activated>>
    ELSE /\ last' = Call("activate_user", 0, "False", IF SHA1_RE_search(key) THEN 1 ELSE 0)
         /\ UNCHANGED <<users, profiles, nextId, now, window, activated>>

\* (mutant) an expired key is consumed by the failed attempt
activate_user_burns_expired(key) ==
    IF SHA1_RE_search(key)
    THEN LET found == ProfilesWithKey(key) IN
         IF found = {}
         THEN /\ last' = Call("activate_user", 0, "False", 1)
              /\ UNCHANGED <<users, profiles, nextId, now, window, activated>>
         ELSE IF Cardinality(found) > 1
         THEN /\ last' = Call("activate_user", 0, "MultipleObjectsReturned", 1)
              /\ UNCHANGED <<users, profiles, nextId, now, window, activated>>
         ELSE LET u == CHOOSE x \in found : TRUE IN
              IF ~activation_key_expired(u)
              THEN /\ users' = [users EXCEPT ![u].is_active = TRUE]
                   /\ profiles' = [profiles EXCEPT ![u] = ACTIVATED]
                   /\ last' = [Call("activate_user", u, "user", 1) EXCEPT !.callbacks = 1]
                   /\ activated' = activated \cup {u}
                   /\ UNCHANGED <<nextId, now, window>>
              ELSE /\ last' = Call("activate_user", u, "False", 1)
                   /\ profiles' = [profiles EXCEPT ![u] = ACTIVATED]
                   /\ UNCHANGED <<users, nextId, now, window, activated>>
    ELSE /\ last' = Call("activate_user", 0, "False", 0)
         /\ UNCHANGED <<users, profiles, nextId, now, window, activated>>

\* (mutant) a successful activation also resets the account's join date
activate_user_touches_joined(key) ==
    IF SHA1_RE_search(key)
    THEN LET found == ProfilesWithKey(key) IN
         IF found = {}
         THEN /\ last' = Call("activate_user", 0, "False", 1)
              /\ UNCHANGED <<users, profiles, nextId, now, window, activated>>
         ELSE IF Cardinality(found) > 1
         THEN /\ last' = Call("activate_user", 0, "MultipleObjectsReturned", 1)
              /\ UNCHANGED <<users, profiles, nextId, now, window, activated>>
         ELSE LET u == CHOOSE x \in found : TRUE IN
              IF ~activation_key_expired(u)
              THEN /\ users' = [users EXCEPT ![u].is_active = TRUE,
                                             ![u].date_joined = now]
                   /\ profiles' = [profiles EXCEPT ![u] = ACTIVATED]
                   /\ last' = [Call("activate_user", u, "user", 1) EXCEPT !.callbacks = 1]
                   /\ activated' = activated \cup {u}
                   /\ UNCHANGED <<nextId, now, window>>
              ELSE /\ last' = Call("activate_user", u, "False", 1)
                   /\ UNCHANGED <<users, profiles, nextId, now, window, activated>>
    ELSE /\ last' = Call("activate_user", 0, "False", 0)
         /\ UNCHANGED <<users, profiles, nextId, now, window, activated>>

\* activate_user(activation_key, callback), with a callback passed
activate_user(key) ==
    IF SHA1_RE_search(key)
    THEN LET found == ProfilesWithKey(key) IN
         IF found = {}
         THEN /\ last' = Call("activate_user", 0, "False", 1)
              /\ UNCHANGED <<users, profiles, nextId, now, window, activated>>
         ELSE IF Cardinality(found) > 1
         THEN /\ last' = Call("activate_user", 0, "MultipleObjectsReturned", 1)
              /\ UNCHANGED <<users, profiles, nextId, now, window, activated>>
         ELSE LET u == CHOOSE x \in found : TRUE IN
              IF ~activation_key_expired(u)
              THEN /\ users' = [users EXCEPT ![u].is_active = TRUE]
                   /\ profiles' = [profiles EXCEPT ![u] = ACTIVATED]
                   /\ last' = [Call("activate_user", u, "user", 1) EXCEPT !.callbacks = 1]
                   /\ activated' = activated \cup {u}
                   /\ UNCHANGED <<nextId, now, window>>
              ELSE /\ last' = Call("activate_user", u, "False", 1)
                   /\ UNCHANGED <<users, profiles, nextId, now, window, activated>>
    ELSE /\ last' = Call("activate_user", 0, "False", 0)
         /\ UNCHANGED <<users, profiles, nextId, now, window, activated>>

\* The call as a step of the system; the recorded variant also keeps the
\* history of the keys that were accepted.
ActivateUser(key) == activate_user(key) /\ UNCHANGED <<consumed, reg, act, mail_up, form>>

ActivateUserRecorded(key) ==
    /\ activate_user(key)
    /\ consumed' = IF last'.outcome = "user" THEN consumed \cup {key} ELSE consumed
    /\ UNCHANGED <<reg, act, mail_up, form>>

\* activate_user statement by statement: the method runs outside any
\* transaction, so each save is visible as soon as it is made. `act` holds
\* the position of the call in flight, its user, whether a callback was
\* passed and how often it has been invoked.
\* lines 63-68: the regex test, the lookup and the expiry test
ActBegin(key, cb) ==
    /\ act.pc = "idle"
    /\ IF SHA1_RE_search(key)
       THEN LET found == ProfilesWithKey(key) IN
            IF found = {}
            THEN /\ last' = Call("activate_user", 0, "False", 1)
                 /\ UNCHANGED act
            ELSE IF Cardinality(found) > 1
            THEN /\ last' = Call("activate_user", 0, "MultipleObjectsReturned", 1)
                 /\ UNCHANGED act
            ELSE LET u == CHOOSE x \in found : TRUE IN
                 IF ~activation_key_expired(u)
                 THEN /\ act' = [pc |-> "found", user |-> u, cb |-> cb, calls |-> 0]
                      /\ last' = NoCall
                 ELSE /\ last' = Call("activate_user", u, "False", 1)
                      /\ UNCHANGED act
       ELSE /\ last' = Call("activate_user", 0, "False", 0)
            /\ UNCHANGED act
    /\ UNCHANGED <<users, profiles, nextId, now, window, consumed, activated, reg, mail_up, form>>

\* (mutant) user.save() is missing
ActSaveUser_skips ==
    /\ act.pc = "found"
    /\ act' = [act EXCEPT !.pc = "user_saved"]
    /\ last' = NoCall
    /\ UNCHANGED <<users, profiles, nextId, now, window, consumed, activated, reg, mail_up, form>>

\* lines 69-71: user.is_active = True; user.save()
ActSaveUser ==
    /\ act.pc = "found"
    /\ users' = [users EXCEPT ![act.user].is_active = TRUE]
    /\ activated' = activated \cup {act.user}
    /\ act' = [act EXCEPT !.pc = "user_saved"]
    /\ last' = NoCall
    /\ UNCHANGED <<profiles, nextId, now, window, consumed, reg, mail_up, form>>

\* lines 72-73: profile.activation_key = ACTIVATED; profile.save()
ActSaveProfile ==
    /\ act.pc = "user_saved"
    /\ profiles' = [profiles EXCEPT ![act.user] = ACTIVATED]
    /\ act' = [act EXCEPT !.pc = "profile_saved"]
    /\ last' = NoCall
    /\ UNCHANGED <<users, nextId, now, window, consumed, activated, reg, mail_up, form>>

\* lines 75-76: if callback is not None: callback(user)
ActCallback ==
    /\ act.pc = "profile_saved" /\ act.cb
    /\ act' = [act EXCEPT !.pc = "called", !.calls = act.calls + 1]
    /\ last' = NoCall
    /\ UNCHANGED <<users, profiles, nextId, now, window, consumed, activated, reg, mail_up, form>>

\* line 78: return user
ActReturn ==
    /\ \/ act.pc = "profile_saved" /\ ~act.cb
       \/ act.pc = "called"
    /\ last' = [Call("activate_user", act.user, "user", 1)
                    EXCEPT !.callbacks = act.calls]
    /\ act' = Idle
    /\ UNCHANGED <<users, profiles, nextId, now, window, consumed, activated, reg, mail_up, form>>

\* (mutant) the is_active test is left out
ExpiredInactive_any == {u \in DOMAIN profiles : activation_key_expired(u)}

\* delete_expired_users(): user.delete() cascades to the profile
ExpiredInactive == {u \in DOMAIN profiles :
                        activation_key_expired(u) /\ ~users[u].is_active}

\* (mutant) the purge also sweeps inactive users that have no profile
DeleteExpiredUsers_sweeps_orphans ==
    LET gone == ExpiredInactive \cup
                {u \in DOMAIN users \ DOMAIN profiles : ~users[u].is_active}
    IN /\ users' = Drop(users, gone)
       /\ profiles' = Drop(profiles, gone)
       /\ activated' = activated \ gone
       /\ last' = [Call("delete_expired_users", 0, "None", 0)
                       EXCEPT !.deleted =
                           {<<u, u \in DOMAIN profiles /\ has_activated(u)>> : u \in gone}]
       /\ UNCHANGED <<nextId, now, window, consumed, reg, act, mail_up, form>>

DeleteExpiredUsers ==
    /\ users' = Drop(users, ExpiredInactive)
    /\ profiles' = Drop(profiles, ExpiredInactive)
    /\ activated' = activated \ ExpiredInactive
    /\ last' = [Call("delete_expired_users", 0, "None", 0)
                    EXCEPT !.deleted =
                        {<<u, has_activated(u)>> : u \in ExpiredInactive}]
    /\ UNCHANGED <<nextId, now, window, consumed, reg, act, mail_up, form>>

\* delete_expired_users() when user.delete() raises for user f (a database
\* error, a protected foreign key of the host application): the loop has no
\* handler, so the call ends there. self.all() has no ordering; the users in
\* `before` were reached, and deleted, earlier in the iteration.
DeleteExpiredUsersFailing(f, before) ==
    /\ f \in ExpiredInactive
    /\ before \subseteq ExpiredInactive \ {f}
    /\ users' = Drop(users, before)
    /\ profiles' = Drop(profiles, before)
    /\ activated' = activated \ before
    /\ last' = [Call("delete_expired_users", f, "Error", 0)
                    EXCEPT !.deleted = {<<u, has_activated(u)>> : u \in before}]
    /\ UNCHANGED <<nextId, now, window, consumed, reg, act, mail_up, form>>

\* str.strip()
RECURSIVE lstrip(_)
lstrip(s) == IF s # <<>> /\ Head(s) \in Whitespace THEN lstrip(Tail(s)) ELSE s
RECURSIVE rstrip(_)
rstrip(s) == IF s # <<>> /\ s[Len(s)] \in Whitespace
             THEN rstrip(SubSeq(s, 1, Len(s) - 1)) ELSE s
strip(s) == rstrip(lstrip(s))

\* What a template context holds about accounts: the user object, the
\* username and the activation key (<<>>: the key is not in the context).
Ctx(user, username, activation_key) ==
    [user |-> user, username |-> username, activation_key |-> activation_key]

\* (mutant) the blank-address test before send_mail is left out
SendActivationEmail_always_sends(name, given, email) ==
    /\ IF UsersNamed(name) = {} \/ UsersNamed(name) \cap DOMAIN profiles = {}
       THEN last' = Call("send_activation_email", 0, "DoesNotExist", 0)
       ELSE LET u == CHOOSE x \in UsersNamed(name) : TRUE
                to == IF ~given \/ strip(email) = <<>> THEN users[u].email ELSE email
            IN last' = [Call("send_activation_email", u,
                             IF mail_up THEN "None" ELSE "SMTPException", 0)
                          EXCEPT !.mailed = << <<to>> >>,
                                 !.rendered = <<Ctx(u, <<>>, <<>>),
                                                Ctx(u, name, profiles[u])>>]
    /\ UNCHANGED <<users, profiles, nextId, now, window, consumed, activated, reg, act, mail_up, form>>

\* send_activation_email(username, email=None) with extra_mail_context=None:
\* the context is a fresh dict; the subject is rendered with site and user in
\* it, the body after username, activation_key and expiration_days were
\* added. given is FALSE for email=None.
SendActivationEmail(name, given, email) ==
    /\ IF UsersNamed(name) = {} \/ UsersNamed(name) \cap DOMAIN profiles = {}
       THEN last' = Call("send_activation_email", 0, "DoesNotExist", 0)
       ELSE LET u == CHOOSE x \in UsersNamed(name) : TRUE
                to == IF ~given \/ strip(email) = <<>> THEN users[u].email ELSE email
                r  == <<Ctx(u, <<>>, <<>>), Ctx(u, name, profiles[u])>>
            IN IF strip(to) = <<>>
               THEN last' = [Call("send_activation_email", u, "None", 0)
                               EXCEPT !.rendered = r]
               ELSE last' = [Call("send_activation_email", u,
                                  IF mail_up THEN "None" ELSE "SMTPException", 0)
                               EXCEPT !.mailed = << <<to>> >>, !.rendered = r]
    /\ UNCHANGED <<users, profiles, nextId, now, window, consumed, activated, reg, act, mail_up, form>>

\* The mail transport behind send_mail goes down or comes back; send_mail is
\* called without fail_silently and raises while it is down.
MailToggle ==
    /\ mail_up' = ~mail_up
    /\ last' = NoCall
    /\ UNCHANGED <<users, profiles, nextId, now, window, consumed, activated, reg, act, form>>

\* values passed as the email argument of send_activation_email
MailArgs == Emails \cup {<<>>, <<" ","b","@","x"," ">>}

\* ------------------------------------------------------ backends.py
\* RegistrationBackend.authenticate(activation_key=None): given is FALSE for
\* None. The queryset has no ordering, so profiles[0] is any matching row.
Authenticate(given, key) ==
    /\ IF ~given
       THEN last' = Call("authenticate", 0, "None", 0)
       ELSE IF ProfilesWithKey(key) = {}
       THEN last' = Call("authenticate", 0, "None", 1)
       ELSE \E u \in ProfilesWithKey(key) :
               last' = Call("authenticate", u, "user", 1)
    /\ UNCHANGED <<users, profiles, nextId, now, window, consumed, activated, reg, act, mail_up, form>>

\* --------------------------------------------------------- forms.py
\* username__iexact
lower(c) == CASE c = "A" -> "a" [] c = "B" -> "b" [] OTHER -> c
iexact(s, t) == Len(s) = Len(t) /\ \A i \in 1..Len(s) : lower(s[i]) = lower(t[i])

\* RegistrationForm.clean_username, for the username n the request carries
FormClean(p, n) ==
    /\ reg[p].pc = "new"
    /\ reg' = [reg EXCEPT ![p] =
                 [pc |-> IF \E u \in DOMAIN users : iexact(users[u].username, n)
                         THEN "ValidationError" ELSE "clean",
                  username |-> n]]
    /\ last' = NoCall
    /\ UNCHANGED <<users, profiles, nextId, now, window, consumed, activated,
                   act, mail_up, form>>

\* RegistrationForm.save: create_inactive_user(..., send_email=False, ...)
FormSave(p) ==
    /\ reg[p].pc = "clean"
    /\ create_inactive_user(reg[p].username, Email0, FALSE)
    /\ reg' = [reg EXCEPT ![p].pc =
                 IF last'.outcome = "user" THEN "saved" ELSE last'.outcome]
    /\ UNCHANGED <<act, mail_up, form>>

\* SimpleRegistrationForm.save(send_mail), statement by statement.
\* email1.split('@')[0]
RECURSIVE before_at(_)
before_at(s) == IF s = <<>> \/ Head(s) = "@" THEN <<>>
                ELSE <<Head(s)>> \o before_at(Tail(s))

\* '%i' % n
DecDigits == <<"0","1","2","3","4","5","6","7","8","9">>
RECURSIVE itoa(_)
itoa(n) == IF n < 10 THEN <<DecDigits[n + 1]>>
           ELSE itoa(n \div 10) \o <<DecDigits[(n % 10) + 1]>>

\* exists = lambda p: User.objects.filter(username__iexact=p).count() > 0
exists(p) == \E u \in DOMAIN users : iexact(users[u].username, p)

\* the form is not inside a save() call
FormAtRest == form.pc \notin {"loop", "create"}

\* RegistrationForm.save(send_email=send) for a validated username: the
\* call passes send_email=False whatever the argument is
RegistrationFormSave(name, email, send) ==
    /\ FormAtRest
    /\ ~exists(name)
    /\ create_inactive_user(name, email, FALSE)
    /\ form' = [cls |-> "RegistrationForm",
                pc |-> IF last'.outcome = "user" THEN "saved" ELSE last'.outcome,
                send |-> send, email |-> email, username |-> name,
                new_username |-> <<>>, counter |-> 0]
    /\ UNCHANGED <<reg, act, mail_up>>

\* RegistrationFormDoubleEmail.save(send_mail=send) for a validated username
DoubleEmailSave(name, email, send) ==
    /\ FormAtRest
    /\ ~exists(name)
    /\ create_inactive_user(name, email, send)
    /\ form' = [cls |-> "RegistrationFormDoubleEmail",
                pc |-> IF last'.outcome = "user" THEN "saved" ELSE last'.outcome,
                send |-> send, email |-> email, username |-> name,
                new_username |-> <<>>, counter |-> 0]
    /\ UNCHANGED <<reg, act, mail_up>>

\* lines 250-258: the username from the email, and the first candidate with
\* a counter if that username is taken
SimpleSaveBegin(email, send) ==
    /\ FormAtRest
    /\ LET local == before_at(email)
           username == SubSeq(local, 1, IF Len(local) < UsernameCut
                                        THEN Len(local) ELSE UsernameCut)
       IN form' = IF exists(username)
                  THEN [cls |-> "SimpleRegistrationForm", pc |-> "loop",
                        send |-> send, email |-> email, username |-> username,
                        new_username |-> username \o itoa(1), counter |-> 1]
                  ELSE [cls |-> "SimpleRegistrationForm", pc |-> "create",
                        send |-> send, email |-> email, username |-> username,
                        new_username |-> <<>>, counter |-> 0]
    /\ last' = NoCall
    /\ UNCHANGED <<users, profiles, nextId, now, window, consumed, activated, reg, act, mail_up>>

\* lines 259-262: one test of `while exists(new_username)`; the body assigns
\* the next candidate to `newusername`, another name, so new_username stays
SimpleSaveLoop ==
    /\ form.pc = "loop"
    /\ IF exists(form.new_username)
       THEN /\ form.counter < MaxCounter
            /\ form' = [form EXCEPT !.counter = form.counter + 1]
       ELSE form' = [form EXCEPT !.username = form.new_username, !.pc = "create"]
    /\ last' = NoCall
    /\ UNCHANGED <<users, profiles, nextId, now, window, consumed, activated, reg, act, mail_up>>

\* lines 264-270: create_inactive_user(username=username, ..., send_email=send_mail)
SimpleSaveCreate ==
    /\ form.pc = "create"
    /\ create_inactive_user(form.username, form.email, form.send)
    /\ form' = [form EXCEPT !.pc = IF last'.outcome = "user" THEN "saved"
                                    ELSE last'.outcome]
    /\ UNCHANGED <<reg, act, mail_up>>

\* -------------------------------------------------------------- the inputs
Digests == {generate_activation_key(n, r) : n \in Usernames, r \in Salts}
Digest0 == generate_activation_key(<<"a">>, 1)
Malformed == {ACTIVATED,
              SubSeq(Digest0, 1, KeyLen - 1),
              [Digest0 EXCEPT ![KeyLen] = "A"],
              [Digest0 EXCEPT ![KeyLen] = "g"],
              Digest0 \o <<"\n">>}
Keys == Digests \cup Malformed

\* ------------------------------------------------------------------ claims
\* the 40-lower-case-hex-digit pattern of a token
IsHexToken(s) == Len(s) = KeyLen /\ \A i \in 1..Len(s) : s[i] \in HexLower

\* u holds a pending (unconsumed) token
Pending(u) == u \in DOMAIN profiles /\ profiles[u] # ACTIVATED

\* C1: a create_inactive_user call with a username that no account holds
\* returns a new account that is inactive and has exactly one profile, whose
\* key is a 40-hex-digit token.
C1_CreateYieldsInactiveAccount ==
    [][last'.op = "create_inactive_user"
       => \A n \in Usernames, s \in BOOLEAN :
            (UsersNamed(n) = {} /\ CreateInactiveUser(n, Email0, s))
            => /\ last'.outcome = "user"
               /\ last'.user \in DOMAIN users' \ DOMAIN users
               /\ users'[last'.user].username = n
               /\ ~users'[last'.user].is_active
               /\ last'.user \in DOMAIN profiles'
               /\ IsHexToken(profiles'[last'.user])]_vars

\* C2: activate_user on the key of a pending, non-expired profile activates
\* the account, stores the sentinel and returns the account; every later
\* call with a key that was accepted before returns False and changes nothing.
C2_ActivateOnceThenReplayFails ==
    [][last'.op = "activate_user"
       => /\ \A u \in DOMAIN profiles :
               (~activation_key_expired(u) /\ ActivateUserRecorded(profiles[u]))
               => /\ last'.outcome = "user" /\ last'.user = u
                  /\ users'[u].is_active
                  /\ profiles'[u] = ACTIVATED
          /\ \A k \in consumed :
               ActivateUserRecorded(k)
               => /\ last'.outcome = "False"
                  /\ users' = users /\ profiles' = profiles]_vars

\* C3: with a positive window W, activate_user on the pending key of an
\* account that joined at T succeeds while now < T + W and returns False,
\* changing nothing, when now >= T + W; an expired profile stays expired.
C3_WindowBoundary ==
    [][window > 0
       => /\ last'.op = "activate_user"
             => \A u \in DOMAIN profiles :
                  (Pending(u) /\ ActivateUser(profiles[u]))
                  => IF now < users[u].date_joined + window
                     THEN /\ last'.outcome = "user" /\ last'.user = u
                          /\ users'[u].is_active
                     ELSE /\ last'.outcome = "False" /\ last'.user = u
                          /\ users' = users /\ profiles' = profiles
          /\ \A u \in DOMAIN profiles \cap DOMAIN profiles' :
               activation_key_expired(u) => activation_key_expired(u)']_vars

C3_Witness ==
    /\ window > 0
    /\ last.op = "activate_user" /\ last.outcome = "False" /\ last.user # 0
    /\ Pending(last.user)
    /\ now = users[last.user].date_joined + window

C5_SentinelPermanent ==
    [][\A u \in DOMAIN profiles \cap DOMAIN profiles' :
         profiles[u] = ACTIVATED => profiles'[u] = ACTIVATED]_vars

C5_Witness ==
    /\ last.op = "create_profile" /\ last.outcome = "IntegrityError"
    /\ profiles[last.user] = ACTIVATED

\* C6: activate_user never returns, and never sets active, an account that
\* it has activated before: it succeeds at most once per account.
C6_NoReactivation ==
    [][last'.op = "activate_user"
       => \A u \in activated :
            /\ ~(last'.outcome = "user" /\ last'.user = u)
            /\ users'[u].is_active = users[u].is_active]_vars

C6_Witness ==
    /\ last.op = "activate_user" /\ last.outcome = "False" /\ last.lookups = 1
    /\ \E u \in activated : ~users[u].is_active

\* C7: delete_expired_users deletes every inactive account whose profile's
\* window has elapsed, and keeps, unchanged, every active account and every
\* account whose profile is not expired.
WindowElapsed(u) == window > 0 /\ users[u].date_joined + window <= now

C7_PurgeDeletesExpiredInactiveOnly ==
    [][last'.op = "delete_expired_users"
       => \A u \in DOMAIN profiles :
            /\ (~users[u].is_active /\ WindowElapsed(u)) => u \notin DOMAIN users'
            /\ (users[u].is_active \/ ~activation_key_expired(u))
               => /\ u \in DOMAIN users' /\ users'[u] = users[u]
                  /\ u \in DOMAIN profiles' /\ profiles'[u] = profiles[u]]_vars

C7_Witness ==
    /\ last.op = "delete_expired_users"
    /\ \E d \in last.deleted : d[2] = FALSE
    /\ \E u \in DOMAIN profiles :
         users[u].is_active /\ Pending(u) /\ ~activation_key_expired(u)

\* C8: delete_expired_users keeps every account whose profile holds the
\* sentinel and that is inactive.
C8_PurgeKeepsDeactivated ==
    [][last'.op = "delete_expired_users"
       => \A u \in DOMAIN profiles :
            (profiles[u] = ACTIVATED /\ ~users[u].is_active)
            => u \in DOMAIN users' /\ u \in DOMAIN profiles']_vars

\* C9: activate_user on a key that is not a 40-lower-case-hex-digit string
\* returns False without any profile lookup and changes nothing.
C9_MalformedFailsBeforeLookup ==
    [][last'.op = "activate_user"
       => \A k \in Keys :
            (~IsHexToken(k) /\ ActivateUser(k))
            => /\ last'.outcome = "False" /\ last'.lookups = 0
               /\ users' = users /\ profiles' = profiles]_vars

\* C10: of two requests for the same username of which at least one passed
\* the form's lookup, exactly one ends with the account created and the other
\* with a uniqueness failure; no two accounts share a username, and every
\* account has its profile.
FormDone(p) == reg[p].pc \in {"ValidationError", "saved", "NameError", "IntegrityError"}

C10_ConcurrentSameUsername ==
    /\ \A u, v \in DOMAIN users :
         u # v => ~iexact(users[u].username, users[v].username)
    /\ \A p, q \in Procs :
         (/\ p # q /\ FormDone(p) /\ FormDone(q)
          /\ reg[p].username = reg[q].username
          /\ reg[p].pc # "ValidationError")
         => /\ {reg[p].pc, reg[q].pc} \cap {"saved"} # {}
            /\ {reg[p].pc, reg[q].pc} \cap {"ValidationError", "IntegrityError"} # {}

\* C11: every profile belongs to an existing account, and a call of
\* create_inactive_user, failed or not, adds no account without a profile
\* holding a hex token and no profile without a new account.
C11_AccountAndRecordTogether ==
    [][/\ DOMAIN profiles' \subseteq DOMAIN users'
       /\ last'.op = "create_inactive_user"
          => /\ \A u \in DOMAIN users' \ DOMAIN users :
                  u \in DOMAIN profiles' /\ IsHexToken(profiles'[u])
             /\ DOMAIN profiles' \ DOMAIN profiles
                  \subseteq DOMAIN users' \ DOMAIN users
             /\ \A u \in DOMAIN users \cap DOMAIN users' : users'[u] = users[u]]_vars

C11_Witness ==
    /\ last.op = "create_inactive_user" /\ last.outcome # "user"
    /\ DOMAIN profiles # {}
    /\ DOMAIN users \ DOMAIN profiles = {}

\* C14: an activate_user call that returns False (malformed key, key not
\* found, key expired or already consumed) leaves every account and every
\* profile as it was and does not invoke the callback.
C14_FailedActivateChangesNothing ==
    [][last'.op = "activate_user" /\ last'.outcome = "False"
       => /\ users' = users
          /\ profiles' = profiles
          /\ last'.callbacks = 0]_vars

\* a key that was found but had expired, with the profile still pending
C14_Witness ==
    /\ last.op = "activate_user" /\ last.outcome = "False"
    /\ last.user \in DOMAIN profiles
    /\ IsHexToken(profiles[last.user])
    /\ ~users[last.user].is_active

\* C15: a manager call changes no field of an account that exists before and
\* after it, except that a successful activate_user sets is_active of the
\* account it returns to true.
C15_OnlyActivateSetsActive ==
    [][last'.op # "none"
       => \A u \in DOMAIN users \cap DOMAIN users' :
            \/ users'[u] = users[u]
            \/ /\ last'.op = "activate_user" /\ last'.outcome = "user"
               /\ last'.user = u
               /\ users'[u] = [users[u] EXCEPT !.is_active = TRUE]]_vars

\* an activation just succeeded after the clock moved on, next to an account
\* that stays inactive
C15_Witness ==
    /\ last.op = "activate_user" /\ last.outcome = "user"
    /\ users[last.user].is_active
    /\ users[last.user].date_joined < now
    /\ \E v \in DOMAIN users : v # last.user /\ ~users[v].is_active

\* C16: activate_user with a pending, unexpired key whose account is already
\* active returns False (docstring of activate_user).
C16_ActiveAccountFails ==
    [][/\ last'.op = "activate_user"
       /\ last'.user \in DOMAIN profiles
       /\ IsHexToken(profiles[last'.user])
       /\ ~activation_key_expired(last'.user)
       /\ users[last'.user].is_active
       => last'.outcome = "False"]_vars

\* C12: a create_inactive_user call with send_email enabled and a free
\* username, made while the mail transport is down, still returns the new
\* account, which is stored inactive with a pending hex token.
C12_MailFailureKeepsRegistration ==
    [][/\ last'.op = "create_inactive_user"
       /\ ~mail_up
       /\ \E n \in Usernames, e \in Emails :
             UsersNamed(n) = {} /\ CreateInactiveUser(n, e, TRUE)
       => /\ last'.outcome = "user"
          /\ \E u \in DOMAIN users' \ DOMAIN users :
                /\ ~users'[u].is_active
                /\ u \in DOMAIN profiles' /\ IsHexToken(profiles'[u])]_vars

\* C19: a send_activation_email call that finds the account and its profile
\* makes no send_mail call when the resolved address (the email argument, or
\* the account's email when the argument is None or blank) is empty after
\* strip, and otherwise exactly one send_mail call whose recipient list is
\* that one address; no account or profile is modified.
C19_OneMailOrNone ==
    [][last'.op = "send_activation_email"
       => /\ users' = users /\ profiles' = profiles
          /\ \A n \in Usernames, g \in BOOLEAN, e \in MailArgs :
               SendActivationEmail(n, g, e) /\ last'.user # 0
               => LET acct == users[last'.user].email
                      resolved == IF g /\ strip(e) # <<>> THEN e ELSE acct
                  IN /\ users[last'.user].username = n
                     /\ strip(resolved) = <<>> => last'.mailed = <<>>
                     /\ strip(resolved) # <<>>
                          => /\ Len(last'.mailed) = 1
                             /\ last'.mailed[1] = <<resolved>>]_vars

\* a blank argument fell back to a blank account address: nothing was sent
C19_WitnessBlank ==
    /\ last.op = "send_activation_email" /\ last.user # 0
    /\ last.outcome = "None"
    /\ strip(users[last.user].email) = <<>>
    /\ last.mailed = <<>>

\* C13: every activate_user call, for any key string and any store, also
\* one in which two profiles hold the same hex key, ends by returning the
\* activated account or False; it never raises.
C13_ActivateNeverRaises ==
    [][last'.op = "activate_user"
       => last'.outcome \in {"user", "False"}]_vars

\* C17: in every delete_expired_users call, also one in which the deletion
\* of one user fails, every other user that is inactive with an expired key
\* is deleted by that call.
C17_PurgeContinuesAfterFailure ==
    [][last'.op = "delete_expired_users"
       => \A u \in ExpiredInactive \ {last'.user} : u \notin DOMAIN users']_vars

\* C18: delete_expired_users deletes no account that has no profile: such
\* an account, inactive and of any age, is stored unchanged after the call.
C18_PurgeKeepsAccountsWithoutProfile ==
    [][last'.op = "delete_expired_users"
       => \A u \in DOMAIN users \ DOMAIN profiles :
             u \in DOMAIN users' /\ users'[u] = users[u]]_vars

\* a purge that deleted another user kept an inactive user without profile
\* that is older than the activation window
C18_Witness ==
    /\ last.op = "delete_expired_users" /\ last.deleted # {}
    /\ \E u \in DOMAIN users \ DOMAIN profiles :
          /\ ~users[u].is_active
          /\ window > 0 /\ users[u].date_joined + window <= now

\* C20: in a successful activate_user call the account is saved active
\* first, then the profile is saved with the sentinel, then the callback, if
\* one was passed, is invoked exactly once, then the account is returned: the
\* callback runs and the call returns only with both writes stored, and no
\* profile holds the sentinel unless its account was set active by an
\* activation.
C20_ActivationOrder ==
    /\ [](/\ act.pc \in {"user_saved", "profile_saved", "called"}
             => users[act.user].is_active /\ act.user \in activated
          /\ act.pc \in {"found", "user_saved"}
             => IsHexToken(profiles[act.user])
          /\ act.pc \in {"profile_saved", "called"}
             => profiles[act.user] = ACTIVATED
          /\ act.calls = IF act.pc = "called" THEN 1 ELSE 0
          /\ \A u \in DOMAIN profiles : profiles[u] = ACTIVATED => u \in activated)
    /\ [][act.pc # "idle" /\ act'.pc = "idle"
          => /\ act.pc = IF act.cb THEN "called" ELSE "profile_saved"
             /\ last'.outcome = "user" /\ last'.user = act.user
             /\ last'.callbacks = IF act.cb THEN 1 ELSE 0
             /\ users'[act.user].is_active
             /\ profiles'[act.user] = ACTIVATED]_vars

\* the callback has just run
C20_Witness ==
    /\ act.pc = "called" /\ act.calls = 1
    /\ users[act.user].is_active
    /\ profiles[act.user] = ACTIVATED

\* C22: authenticate returns an account only for the pending 40-hex key held
\* by that account's profile; for None, for a key no profile holds and for
\* the sentinel ALREADY_ACTIVATED it returns None.
C22_OnlyPendingKeyAuthenticates ==
    [][last'.op = "authenticate"
       => /\ last'.outcome = "user"
             => /\ last'.user \in DOMAIN profiles
                /\ IsHexToken(profiles[last'.user])
                /\ Authenticate(TRUE, profiles[last'.user])
          /\ Authenticate(FALSE, ACTIVATED) \/ Authenticate(TRUE, ACTIVATED)
             => last'.outcome = "None"]_vars

\* C21: SimpleRegistrationForm.save terminates, whatever usernames exist and
\* whatever the email is: the numbering loop needs at most one test more
\* than there are accounts, since each test is of another candidate; and the
\* username it passes to create_inactive_user is held by no account,
\* compared without case.
C21_SimpleSaveTerminates ==
    /\ [](form.pc = "loop" => form.counter <= Cardinality(DOMAIN users) + 1)
    /\ [][form.pc = "loop" /\ form'.pc = "loop"
          => form'.new_username = form.username \o itoa(form'.counter)]_vars
    /\ [][form.pc = "create" /\ form'.pc # "create" => ~exists(form.username)]_vars

\* a save() call of a form has just ended, by returning or by raising
SaveEnded == form' # form /\ form'.pc \notin {"idle", "loop", "create"}

\* C24: when a form's save() ends, the activation email step has run for the
\* new account if and only if the email flag passed to save() was true.
C24_SaveHonoursEmailFlag ==
    [][SaveEnded => (last'.rendered # <<>> <=> form'.send)]_vars

Next ==
    \/ \E n \in Usernames, a \in BOOLEAN : HostCreateUser(n, Email0, a)
    \/ \E u \in 1..MaxUsers, b \in BOOLEAN : AdminSetActive(u, b)
    \/ Tick
    \/ \E u \in 1..MaxUsers, r \in Salts : CreateProfile(u, r)
    \/ \E n \in Usernames, s \in BOOLEAN : CreateInactiveUser(n, Email0, s)
    \/ \E k \in Keys : ActivateUser(k)
    \/ DeleteExpiredUsers
    \/ \E n \in Usernames, g \in BOOLEAN, e \in Emails : SendActivationEmail(n, g, e)

Spec == Init /\ [][Next]_vars

\* The same system with the history of accepted keys recorded.
NextReplay ==
    \/ \E n \in Usernames, a \in BOOLEAN : HostCreateUser(n, Email0, a)
    \/ \E u \in 1..MaxUsers, b \in BOOLEAN : AdminSetActive(u, b)
    \/ Tick
    \/ \E u \in 1..MaxUsers, r \in Salts : CreateProfile(u, r)
    \/ \E k \in Keys : ActivateUserRecorded(k)
    \/ DeleteExpiredUsers

SpecReplay == Init /\ [][NextReplay]_vars

\* Two registration requests against a user table that is empty or holds
\* one account.
FormNames == {<<"a">>, <<"A">>, <<"b">>}

InitForms ==
    /\ \/ users = EmptyMap /\ nextId = 1
       \/ /\ users = Put(EmptyMap, 1, [username |-> <<"b">>, email |-> Email0,
                                       is_active |-> FALSE, date_joined |-> 0])
          /\ nextId = 2
    /\ profiles = EmptyMap
    /\ now = 0
    /\ window \in Windows
    /\ last = NoCall
    /\ consumed = {}
    /\ activated = {}
    /\ reg = [p \in Procs |-> NewForm]
    /\ act = Idle
    /\ mail_up = TRUE
    /\ form = NoForm

NextForms ==
    \/ \E p \in Procs, n \in FormNames : FormClean(p, n)
    \/ \E p \in Procs : FormSave(p)

SpecForms == InitForms /\ [][NextForms]_vars


\* Accounts with blank and non-blank addresses, and a mail transport that
\* can be down.
NextMail ==
    \/ \E n \in Usernames, e \in Emails, a \in BOOLEAN : HostCreateUser(n, e, a)
    \/ \E u \in 1..MaxUsers, r \in Salts : CreateProfile(u, r)
    \/ \E n \in Usernames, e \in Emails, s \in BOOLEAN : CreateInactiveUser(n, e, s)
    \/ MailToggle
    \/ \E n \in Usernames, g \in BOOLEAN, e \in MailArgs : SendActivationEmail(n, g, e)

SpecMail == Init /\ [][NextMail]_vars


\* Usernames can be changed and taken again by a later account.
NextRename ==
    \/ \E n \in Usernames, a \in BOOLEAN : HostCreateUser(n, Email0, a)
    \/ \E u \in 1..MaxUsers, n \in Usernames : HostRenameUser(u, n)
    \/ Tick
    \/ \E u \in 1..MaxUsers, r \in Salts : CreateProfile(u, r)
    \/ \E k \in Keys : ActivateUser(k)

SpecRename == Init /\ [][NextRename]_vars

\* Purges in which the deletion of one user can fail.
NextFaults ==
    \/ \E n \in Usernames : HostCreateUser(n, Email0, FALSE)
    \/ \E u \in 1..MaxUsers, b \in BOOLEAN : AdminSetActive(u, b)
    \/ Tick
    \/ \E u \in 1..MaxUsers, r \in Salts : CreateProfile(u, r)
    \/ DeleteExpiredUsers
    \/ \E f \in 1..MaxUsers, before \in SUBSET (1..MaxUsers) :
          DeleteExpiredUsersFailing(f, before)

SpecFaults == Init /\ [][NextFaults]_vars

\* Profiles can be deleted by an administrator while their users stay.
NextAdmin ==
    \/ \E n \in Usernames : HostCreateUser(n, Email0, FALSE)
    \/ \E u \in 1..MaxUsers, b \in BOOLEAN : AdminSetActive(u, b)
    \/ Tick
    \/ \E u \in 1..MaxUsers, r \in Salts : CreateProfile(u, r)
    \/ \E u \in 1..MaxUsers : AdminDeleteProfile(u)
    \/ DeleteExpiredUsers

SpecAdmin == Init /\ [][NextAdmin]_vars

\* One activate_user call at a time, taken statement by statement, while
\* accounts and profiles are created and time passes.
NextSteps ==
    \/ \E n \in Usernames, a \in BOOLEAN : HostCreateUser(n, Email0, a)
    \/ Tick
    \/ \E u \in 1..MaxUsers, r \in Salts : CreateProfile(u, r)
    \/ \E k \in Keys, cb \in BOOLEAN : ActBegin(k, cb)
    \/ ActSaveUser
    \/ ActSaveProfile
    \/ ActCallback
    \/ ActReturn

SpecSteps == Init /\ [][NextSteps]_vars

\* Logging in with an activation key through the authentication backend.
NextBackend ==
    \/ \E n \in Usernames, a \in BOOLEAN : HostCreateUser(n, Email0, a)
    \/ Tick
    \/ \E u \in 1..MaxUsers, r \in Salts : CreateProfile(u, r)
    \/ \E k \in Keys : ActivateUser(k)
    \/ \E g \in BOOLEAN, k \in Keys : Authenticate(g, k)

SpecBackend == Init /\ [][NextBackend]_vars

\* SimpleRegistrationForm.save against a user table that holds any of these
\* usernames.
LongLocal == [i \in 1..(UsernameCut + 1) |-> "a"]
SimpleNames == {<<"a">>, <<"A">>, <<"a","1">>, <<"a","2">>,
                SubSeq(LongLocal, 1, UsernameCut)}
SimpleEmails == {<<"a","@","x">>, <<"b","@","x">>, LongLocal \o <<"@","x">>}

InitSimple ==
    /\ \E names \in SUBSET SimpleNames :
          /\ Cardinality(names) <= MaxUsers
          /\ \E f \in [1..Cardinality(names) -> names] :
                /\ \A i, j \in DOMAIN f : f[i] = f[j] => i = j
                /\ users = [i \in DOMAIN f |->
                              [username |-> f[i], email |-> Email0,
                               is_active |-> FALSE, date_joined |-> 0]]
                /\ nextId = Cardinality(names) + 1
    /\ profiles = EmptyMap
    /\ now = 0
    /\ window \in Windows
    /\ last = NoCall
    /\ consumed = {}
    /\ activated = {}
    /\ reg = [p \in Procs |-> NewForm]
    /\ act = Idle
    /\ mail_up = TRUE
    /\ form = NoForm

NextSimple ==
    \/ \E e \in SimpleEmails, s \in BOOLEAN : SimpleSaveBegin(e, s)
    \/ SimpleSaveLoop
    \/ SimpleSaveCreate

SpecSimple == InitSimple /\ [][NextSimple]_vars

\* Registrations through the save() methods of the three forms.
NextSave ==
    \/ \E n \in Usernames, a \in BOOLEAN : HostCreateUser(n, Email0, a)
    \/ \E n \in Usernames, s \in BOOLEAN : RegistrationFormSave(n, Email0, s)
    \/ \E n \in Usernames, s \in BOOLEAN : DoubleEmailSave(n, Email0, s)
    \/ \E e \in SimpleEmails, s \in BOOLEAN : SimpleSaveBegin(e, s)
    \/ SimpleSaveLoop
    \/ SimpleSaveCreate

SpecSave == Init /\ [][NextSave]_vars
====
